---- MODULE Spec2Model ----
(***************************************************************************)
(* Session layout of kazeterm: the pane tree of a tab (SplitPane and       *)
(* SplitContainer, components/split_pane.rs) and the tab list of the main  *)
(* window (MainWindow, components/main_window_*.rs).                       *)
(*                                                                         *)
(* Option<T> is modelled as a sequence: None is <<>>, Some(x) is <<x>>.    *)
(* A terminal entity is modelled by its index field (the handle).          *)
(***************************************************************************)
EXTENDS Integers, Sequences, FiniteSets, TLC

VARIABLES
  items,             \* MainWindow.items: Vec<TabItem>
  active_tab_ix,     \* MainWindow.active_tab_ix: Option<usize>
  tab_index,         \* MainWindow.tab_index: AtomicUsize (tab ids and terminal handles)
  close_on_last_tab, \* Config.close_on_last_tab
  window_removed,    \* window.remove_window() has been called
  panicked,          \* an index-out-of-bounds panic has unwound the handler
  menu,              \* the open tab context menu with the values captured when it was built
  drag,              \* the DraggedTab payload captured at drag start
  rename_dialog,     \* MainWindow.rename_dialog: the open TabRenameDialog, if any
  tab_switcher,      \* MainWindow.tab_switcher_visible and tab_switcher_selection
  rendered,          \* the number of tabs the last render drew, with their positions
  bus,               \* the EventBus: its handlers map
  dispatched,        \* history: the last EventBus::dispatch, its calls and its result
  last,              \* history: the last handler that ran and which of its cases it took
  ever_tabs,         \* history: every tab id that was ever in items
  ever_panes,        \* history: per tab id, every pane id that was ever in its tree
  limits             \* the bounds of the state space the specification explores

vars == <<items, active_tab_ix, tab_index, close_on_last_tab, window_removed,
          panicked, menu, drag, rename_dialog, tab_switcher, rendered, bus,
          dispatched, last, ever_tabs, ever_panes, limits>>

\* ------------------------------------------------------------------ bounds
\* tab_index counts the tab ids and terminal handles allocated; each
\* specification explores the states in which it is at most its bound
MaxIndex == 3      \* in the tab-list specification
MaxPaneIndex == 4  \* in the pane-tree specification
MaxIdsIndex == 2   \* in the specification of the id-keyed handlers
MaxMovesIndex == 3  \* in the specification of the tab moves
MaxTitlesIndex == 2 \* in the specification of the titles
MaxProfilesIndex == 3 \* in the specification of the profiles
MaxHandlers == 3   \* the handlers subscribed to the event bus
MaxSelectIndex == 3 \* in the specification of the tab selection

\* -------------------------------------------------------------- Option<T>
None == <<>>
Some(x) == <<x>>
IsSome(o) == Len(o) = 1
IsNone(o) == Len(o) = 0
Unwrap(o) == o[1]

Min(a, b) == IF a < b THEN a ELSE b

\* ---------------------------------------------------------------- SplitPane
Directions == {"Horizontal", "Vertical"}

\* ratio: f32 of the first pane's size, in hundredths
DefaultRatio == 50

Terminal(id, terminal) == [kind |-> "Terminal", id |-> id, terminal |-> terminal]

Split(direction, first, second, ratio) ==
  [kind |-> "Split", direction |-> direction, first |-> first,
   second |-> second, ratio |-> ratio]

new_terminal(id, terminal) == Terminal(id, terminal)

\* SplitPane::split with the new terminal as the first child of the new split
RECURSIVE split_new_first(_, _, _, _, _)
split_new_first(self, pane_id, direction, new_term, next_id) ==
  IF self.kind = "Terminal"
  THEN IF self.id = pane_id
       THEN [self |-> Split(direction, Terminal(next_id, new_term),
                            Terminal(self.id, self.terminal), DefaultRatio),
             ok |-> TRUE]
       ELSE [self |-> self, ok |-> FALSE]
  ELSE LET f == split_new_first(self.first, pane_id, direction, new_term, next_id) IN
       IF f.ok
       THEN [self |-> [self EXCEPT !.first = f.self], ok |-> TRUE]
       ELSE LET s == split_new_first(self.second, pane_id, direction, new_term, next_id) IN
            [self |-> [self EXCEPT !.first = f.self, !.second = s.self], ok |-> s.ok]

\* SplitPane::split; self is the node after the call, ok the returned bool
RECURSIVE split(_, _, _, _, _)
split(self, pane_id, direction, new_term, next_id) ==
  IF self.kind = "Terminal"
  THEN IF self.id = pane_id
       THEN [self |-> Split(direction, Terminal(self.id, self.terminal),
                            Terminal(next_id, new_term), DefaultRatio),
             ok |-> TRUE]
       ELSE [self |-> self, ok |-> FALSE]
  ELSE LET f == split(self.first, pane_id, direction, new_term, next_id) IN
       IF f.ok
       THEN [self |-> [self EXCEPT !.first = f.self], ok |-> TRUE]
       ELSE LET s == split(self.second, pane_id, direction, new_term, next_id) IN
            [self |-> [self EXCEPT !.first = f.self, !.second = s.self], ok |-> s.ok]

ClosePaneResult(self, replacement, closed) ==
  [self |-> self, replacement |-> replacement, closed |-> closed]

\* SplitPane::close_pane; self is the node after the call (it is mutated in
\* place), replacement and closed are the fields of the returned result
RECURSIVE close_pane(_, _)
close_pane(self, pane_id) ==
  IF self.kind = "Terminal"
  THEN IF self.id = pane_id
       THEN ClosePaneResult(self, None, TRUE)
       ELSE ClosePaneResult(self, None, FALSE)
  ELSE
    IF self.first.kind = "Terminal" /\ self.first.id = pane_id
    THEN ClosePaneResult(self, Some(self.second), TRUE)
    ELSE IF self.second.kind = "Terminal" /\ self.second.id = pane_id
    THEN ClosePaneResult(self, Some(self.first), TRUE)
    ELSE
      LET first_result == close_pane(self.first, pane_id) IN
      IF first_result.closed
      THEN IF IsSome(first_result.replacement)
           THEN ClosePaneResult([self EXCEPT !.first = Unwrap(first_result.replacement)],
                                None, TRUE)
           ELSE ClosePaneResult([self EXCEPT !.first = first_result.self],
                                Some(self.second), TRUE)
      ELSE
        LET self1 == [self EXCEPT !.first = first_result.self]
            second_result == close_pane(self.second, pane_id) IN
        IF second_result.closed
        THEN IF IsSome(second_result.replacement)
             THEN ClosePaneResult([self1 EXCEPT !.second = Unwrap(second_result.replacement)],
                                  None, TRUE)
             ELSE ClosePaneResult([self1 EXCEPT !.second = second_result.self],
                                  Some(self1.first), TRUE)
        ELSE ClosePaneResult([self1 EXCEPT !.second = second_result.self], None, FALSE)

\* SplitPane::find_pane_by_terminal_index
RECURSIVE find_pane_by_terminal_index(_, _)
find_pane_by_terminal_index(self, terminal_index) ==
  IF self.kind = "Terminal"
  THEN IF self.terminal = terminal_index THEN Some(self.id) ELSE None
  ELSE LET f == find_pane_by_terminal_index(self.first, terminal_index) IN
       IF IsSome(f) THEN f
       ELSE find_pane_by_terminal_index(self.second, terminal_index)

\* SplitPane::find_terminal
RECURSIVE find_terminal(_, _)
find_terminal(self, pane_id) ==
  IF self.kind = "Terminal"
  THEN IF self.id = pane_id THEN Some(self.terminal) ELSE None
  ELSE LET f == find_terminal(self.first, pane_id) IN
       IF IsSome(f) THEN f ELSE find_terminal(self.second, pane_id)

\* SplitPane::all_terminals: the (id, terminal) pairs in pre-order
RECURSIVE all_terminals(_)
all_terminals(self) ==
  IF self.kind = "Terminal"
  THEN << <<self.id, self.terminal>> >>
  ELSE all_terminals(self.first) \o all_terminals(self.second)

\* SplitPane::count_panes
RECURSIVE count_panes(_)
count_panes(self) ==
  IF self.kind = "Terminal" THEN 1
  ELSE count_panes(self.first) + count_panes(self.second)

\* ----------------------------------------------------------- SplitContainer
SplitContainer(root, active_pane_id, next_pane_id) ==
  [root |-> root, active_pane_id |-> active_pane_id, next_pane_id |-> next_pane_id]

\* SplitContainer::new with no active pane
SplitContainer_new_no_active(terminal) ==
  SplitContainer(new_terminal(0, terminal), None, 1)

\* SplitContainer::new
SplitContainer_new(terminal) ==
  SplitContainer(new_terminal(0, terminal), Some(0), 1)

\* last().map(|(id, _)| *id) of all_terminals()
last_terminal_id(root) ==
  LET terminals == all_terminals(root) IN
  IF Len(terminals) = 0 THEN None ELSE Some(terminals[Len(terminals)][1])

\* first().map(|(id, _)| *id) of all_terminals()
first_terminal_id(root) ==
  LET terminals == all_terminals(root) IN
  IF Len(terminals) = 0 THEN None ELSE Some(terminals[1][1])

\* split_active_pane without "self.next_pane_id += 1"
split_active_pane_no_advance(c, direction, new_term) ==
  IF IsSome(c.active_pane_id)
  THEN LET active_id == Unwrap(c.active_pane_id)
           new_id == c.next_pane_id
           r == split(c.root, active_id, direction, new_term, new_id) IN
       IF r.ok
       THEN [c |-> SplitContainer(r.self, Some(new_id), c.next_pane_id),
             ret |-> Some(new_id)]
       ELSE [c |-> [c EXCEPT !.root = r.self], ret |-> None]
  ELSE [c |-> c, ret |-> None]

\* split_active_pane leaving the active id on the pane that was split
split_active_pane_keeps_active(c, direction, new_term) ==
  IF IsSome(c.active_pane_id)
  THEN LET active_id == Unwrap(c.active_pane_id)
           new_id == c.next_pane_id
           r == split(c.root, active_id, direction, new_term, new_id) IN
       IF r.ok
       THEN [c |-> SplitContainer(r.self, c.active_pane_id, c.next_pane_id + 1),
             ret |-> Some(new_id)]
       ELSE [c |-> [c EXCEPT !.root = r.self], ret |-> None]
  ELSE [c |-> c, ret |-> None]

\* SplitContainer::split_active_pane; c is the container after the call
split_active_pane(c, direction, new_term) ==
  IF IsSome(c.active_pane_id)
  THEN LET active_id == Unwrap(c.active_pane_id)
           new_id == c.next_pane_id
           r == split(c.root, active_id, direction, new_term, new_id) IN
       IF r.ok
       THEN [c |-> SplitContainer(r.self, Some(new_id), c.next_pane_id + 1),
             ret |-> Some(new_id)]
       ELSE [c |-> [c EXCEPT !.root = r.self], ret |-> None]
  ELSE [c |-> c, ret |-> None]

\* the root when the replacement that close_pane returns is not installed
root_after_close_not_installed(root, result) == result.self

\* let result = self.root.close_pane(id); if let Some(new_root) =
\* result.replacement { self.root = new_root; }: the root after the two statements
root_after_close(root, result) ==
  IF IsSome(result.replacement) THEN Unwrap(result.replacement) ELSE result.self

\* close_active_pane without the re-validation of the active id
close_active_repair_skipped(c, root, active_id) == c.active_pane_id

\* close_active_pane repairing the active id to the last terminal
close_active_repair_to_last(c, root, active_id) ==
  IF c.active_pane_id = Some(active_id) /\ IsNone(find_terminal(root, active_id))
  THEN LET terminals == all_terminals(root) IN
       IF terminals = <<>> THEN None ELSE Some(terminals[Len(terminals)][1])
  ELSE c.active_pane_id

\* the re-validation of the active id at the end of close_active_pane
close_active_repair(c, root, active_id) ==
  IF c.active_pane_id = Some(active_id) /\ IsNone(find_terminal(root, active_id))
  THEN first_terminal_id(root)
  ELSE c.active_pane_id

\* close_active_pane with the last-pane guard "count_panes() < 1"
close_active_pane_no_guard(c) ==
  IF IsSome(c.active_pane_id)
  THEN LET active_id == Unwrap(c.active_pane_id) IN
       IF count_panes(c.root) < 1
       THEN [c |-> c, ret |-> FALSE]
       ELSE LET result == close_pane(c.root, active_id)
                root == root_after_close(c.root, result) IN
            IF result.closed
            THEN [c |-> [c EXCEPT !.root = root,
                                  !.active_pane_id = close_active_repair(c, root, active_id)],
                  ret |-> TRUE]
            ELSE [c |-> [c EXCEPT !.root = root], ret |-> FALSE]
  ELSE [c |-> c, ret |-> FALSE]

\* SplitContainer::close_active_pane
close_active_pane(c) ==
  IF IsSome(c.active_pane_id)
  THEN LET active_id == Unwrap(c.active_pane_id) IN
       IF count_panes(c.root) <= 1
       THEN [c |-> c, ret |-> FALSE]
       ELSE LET result == close_pane(c.root, active_id)
                root == root_after_close(c.root, result) IN
            IF result.closed
            THEN [c |-> [c EXCEPT !.root = root,
                                  !.active_pane_id = close_active_repair(c, root, active_id)],
                  ret |-> TRUE]
            ELSE [c |-> [c EXCEPT !.root = root], ret |-> FALSE]
  ELSE [c |-> c, ret |-> FALSE]

\* close_pane_by_terminal_index setting the active id to the first terminal
\* after every close
close_pane_by_terminal_index_resets_active(c, terminal_index) ==
  LET found == find_pane_by_terminal_index(c.root, terminal_index) IN
  IF IsSome(found)
  THEN LET pane_id == Unwrap(found) IN
       IF count_panes(c.root) <= 1
       THEN [c |-> c, ret |-> FALSE]
       ELSE LET result == close_pane(c.root, pane_id)
                root == root_after_close(c.root, result) IN
            IF result.closed
            THEN [c |-> [c EXCEPT
                     !.root = root,
                     !.active_pane_id =
                        first_terminal_id(root)],
                  ret |-> TRUE]
            ELSE [c |-> [c EXCEPT !.root = root], ret |-> FALSE]
  ELSE [c |-> c, ret |-> FALSE]

\* SplitContainer::close_pane_by_terminal_index
close_pane_by_terminal_index(c, terminal_index) ==
  LET found == find_pane_by_terminal_index(c.root, terminal_index) IN
  IF IsSome(found)
  THEN LET pane_id == Unwrap(found) IN
       IF count_panes(c.root) <= 1
       THEN [c |-> c, ret |-> FALSE]
       ELSE LET result == close_pane(c.root, pane_id)
                root == root_after_close(c.root, result) IN
            IF result.closed
            THEN [c |-> [c EXCEPT
                     !.root = root,
                     !.active_pane_id =
                        IF \/ c.active_pane_id = Some(pane_id)
                           \/ /\ IsSome(c.active_pane_id)
                              /\ IsNone(find_terminal(root, Unwrap(c.active_pane_id)))
                        THEN first_terminal_id(root)
                        ELSE c.active_pane_id],
                  ret |-> TRUE]
            ELSE [c |-> [c EXCEPT !.root = root], ret |-> FALSE]
  ELSE [c |-> c, ret |-> FALSE]

\* SplitContainer::get_active_terminal
get_active_terminal(c) ==
  IF IsSome(c.active_pane_id) THEN find_terminal(c.root, Unwrap(c.active_pane_id))
  ELSE None

\* SplitContainer::set_active_pane
set_active_pane(c, pane_id) ==
  IF IsSome(find_terminal(c.root, pane_id))
  THEN [c EXCEPT !.active_pane_id = Some(pane_id)]
  ELSE c

\* ------------------------------------------------------------------ Config
\* Config.profiles: the configured profiles, in file order
ConfigProfiles ==
  << [name |-> "default", shell |-> "/bin/bash"],
     [name |-> "dev", shell |-> "/usr/bin/zsh"] >>

\* the entries of ~/.ssh/config (config::get_ssh_hosts)
SshHosts == {"build-host"}

\* the profile names offered by the new-tab dropdown and usable in events
ProfileNames == {"dev", "build-host"}

\* Config::get_profile
get_profile(name) ==
  LET found == {i \in 1..Len(ConfigProfiles) : ConfigProfiles[i].name = name} IN
  IF found = {} THEN None
  ELSE Some(ConfigProfiles[CHOOSE i \in found : \A j \in found : i <= j])

\* Config::get_shell with no default_profile set: the first profile's shell
get_shell == ConfigProfiles[1].shell

\* Path::file_stem(..).to_lowercase() of a shell program
shell_name(program) ==
  CASE program = "/bin/bash" -> "bash"
    [] program = "/usr/bin/zsh" -> "zsh"
    [] OTHER -> program

\* the title_text values a terminal reports with UpdateTab
TitleTexts == {"vim"}
\* the texts submitted through the rename dialog
CustomTitles == {"work"}

\* ---------------------------------------------------------------- TabItem
TabItem(index, title, custom_title, shell_path, split_container) ==
  [index |-> index, title |-> title, custom_title |-> custom_title,
   shell_path |-> shell_path, split_container |-> split_container]

\* TabItem::display_title
display_title(item) ==
  IF IsSome(item.custom_title) THEN Unwrap(item.custom_title) ELSE item.title

\* ------------------------------------------------------------- Vec helpers
\* Vec positions are 0-based in the code; items[i + 1] is the code's items[i]
vec_remove(v, i) == SubSeq(v, 1, i) \o SubSeq(v, i + 2, Len(v))
vec_insert(v, i, x) == SubSeq(v, 1, i) \o <<x>> \o SubSeq(v, i + 1, Len(v))
vec_swap(v, a, b) == [v EXCEPT ![a + 1] = v[b + 1], ![b + 1] = v[a + 1]]
vec_truncate(v, n) == IF n < Len(v) THEN SubSeq(v, 1, n) ELSE v

\* iter().position(..): the first of the 0-based positions that satisfy the
\* predicate, as an Option
vec_position(matching) ==
  IF matching = {} THEN None
  ELSE Some(CHOOSE i \in matching : \A j \in matching : i <= j)

\* the positions of v whose item has the tab id
positions_of_index(v, tab_ix_id) == {i \in 0..(Len(v) - 1) : v[i + 1].index = tab_ix_id}

\* ------------------------------------------------------------- MainWindow
\* the fields of MainWindow (and the window) that the handlers read and write
MW == [items |-> items, active_tab_ix |-> active_tab_ix, tab_index |-> tab_index,
       window_removed |-> window_removed, panicked |-> panicked]

\* all_terminals().iter().any(|(_, t)| t.read(cx).index == terminal_index)
has_terminal(item, terminal_index) ==
  LET terminals == all_terminals(item.split_container.root) IN
  \E k \in 1..Len(terminals) : terminals[k][2] = terminal_index

\* insert_new_tab_with_profile taking the id from the length of the list
insert_new_tab_with_profile_by_position(m, profile_name) ==
  LET index == Len(m.items)
      profile == IF IsSome(profile_name) THEN get_profile(Unwrap(profile_name)) ELSE None
      shell_program ==
        IF IsSome(profile_name)
        THEN IF IsSome(profile) THEN Unwrap(profile).shell
             ELSE IF Unwrap(profile_name) \in SshHosts THEN "ssh"
             ELSE get_shell
        ELSE get_shell
      tab_title ==
        IF IsSome(profile_name) THEN Unwrap(profile_name) ELSE shell_name(shell_program)
      item == TabItem(index, tab_title, None, shell_program, SplitContainer_new(index))
      pushed == Append(m.items, item) IN
  [m EXCEPT !.tab_index = m.tab_index + 1,
            !.items = pushed,
            !.active_tab_ix = Some(Len(pushed) - 1)]

\* MainWindow::insert_new_tab_with_profile
insert_new_tab_with_profile(m, profile_name) ==
  LET index == m.tab_index
      profile == IF IsSome(profile_name) THEN get_profile(Unwrap(profile_name)) ELSE None
      shell_program ==
        IF IsSome(profile_name)
        THEN IF IsSome(profile) THEN Unwrap(profile).shell
             ELSE IF Unwrap(profile_name) \in SshHosts THEN "ssh"
             ELSE get_shell
        ELSE get_shell
      tab_title ==
        IF IsSome(profile_name) THEN Unwrap(profile_name) ELSE shell_name(shell_program)
      item == TabItem(index, tab_title, None, shell_program, SplitContainer_new(index))
      pushed == Append(m.items, item) IN
  [m EXCEPT !.tab_index = index + 1,
            !.items = pushed,
            !.active_tab_ix = Some(Len(pushed) - 1)]

\* MainWindow::insert_new_tab
insert_new_tab(m) == insert_new_tab_with_profile(m, None)

\* MainWindow::set_active_tab
set_active_tab(m, ix) == [m EXCEPT !.active_tab_ix = Some(ix)]

\* Option::unwrap_or
unwrap_or(o, default) == IF IsSome(o) THEN Unwrap(o) ELSE default

\* MainWindow::show_tab_switcher; sw holds tab_switcher_visible and
\* tab_switcher_selection, m and sw are the window and the switcher after the call
show_tab_switcher(m, sw, forward) ==
  IF Len(m.items) <= 1 THEN [m |-> m, sw |-> sw]
  ELSE LET current_ix == unwrap_or(m.active_tab_ix, 0)
           selection ==
             IF ~sw.visible
             THEN IF forward THEN (current_ix + 1) % Len(m.items)
                  ELSE IF current_ix = 0 THEN Len(m.items) - 1 ELSE current_ix - 1
             ELSE IF forward THEN (sw.selection + 1) % Len(m.items)
                  ELSE IF sw.selection = 0 THEN Len(m.items) - 1 ELSE sw.selection - 1
       IN  [m |-> set_active_tab(m, selection),
            sw |-> [visible |-> TRUE, selection |-> selection]]

\* MainWindow::hide_tab_switcher
hide_tab_switcher(sw) == IF sw.visible THEN [sw EXCEPT !.visible = FALSE] ELSE sw

\* new_active_ix without the "active_ix > pos" branch
new_active_ix_no_shift(active, pos, len) ==
  IF IsSome(active)
  THEN LET active_ix == Unwrap(active) IN
       IF active_ix = pos THEN Min(pos, len - 1)
       ELSE active_ix
  ELSE 0

\* the new active position computed by remove_tab_by after removing position pos;
\* len is the length of items after the removal
new_active_ix(active, pos, len) ==
  IF IsSome(active)
  THEN LET active_ix == Unwrap(active) IN
       IF active_ix = pos THEN Min(pos, len - 1)
       ELSE IF active_ix > pos THEN active_ix - 1
       ELSE active_ix
  ELSE 0

\* the zero-tab handling without the close_on_last_tab test
on_no_tabs_left_always_insert(m, policy_close) == insert_new_tab(m)

\* the zero-tab policy of remove_tab_by; m is the window with the last tab removed
on_no_tabs_left(m, policy_close) ==
  IF policy_close THEN [m EXCEPT !.window_removed = TRUE]
  ELSE insert_new_tab(m)

\* the lookup falling back to position 0 when the tab id is absent
removed_pos_or_first(m, tab_ix_id) ==
  LET found == vec_position(positions_of_index(m.items, tab_ix_id)) IN
  IF IsNone(found) /\ Len(m.items) > 0 THEN Some(0) ELSE found

\* the lookup at the head of remove_tab_by
removed_pos(m, tab_ix_id) ==
  vec_position(positions_of_index(m.items, tab_ix_id))

\* MainWindow::remove_tab_by
remove_tab_by(m, tab_ix_id, policy_close) ==
  LET found == removed_pos(m, tab_ix_id) IN
  IF IsSome(found)
  THEN LET pos == Unwrap(found)
           m1 == [m EXCEPT !.items = vec_remove(m.items, pos)] IN
       IF Len(m1.items) = 0
       THEN on_no_tabs_left(m1, policy_close)
       ELSE set_active_tab(m1, new_active_ix(m1.active_tab_ix, pos, Len(m1.items)))
  ELSE m

\* build_default_event_bus, the handler of NextTab
next_tab(m) ==
  IF Len(m.items) # 0
  THEN set_active_tab(m, (unwrap_or(m.active_tab_ix, 0) + 1) % Len(m.items))
  ELSE m

\* build_default_event_bus, the handler of PreviousTab
previous_tab(m) ==
  IF Len(m.items) # 0
  THEN LET current_ix == unwrap_or(m.active_tab_ix, 0) IN
       set_active_tab(m, IF current_ix = 0 THEN Len(m.items) - 1 ELSE current_ix - 1)
  ELSE m

\* build_default_event_bus, the handler of SwitchToTab { position }
switch_to_tab(m, position) ==
  IF position < Len(m.items) THEN set_active_tab(m, position) ELSE m

\* build_default_event_bus, the handler of CloseActiveTab
close_active_tab(m, policy_close) ==
  IF IsSome(m.active_tab_ix) /\ Unwrap(m.active_tab_ix) < Len(m.items)
  THEN remove_tab_by(m, m.items[Unwrap(m.active_tab_ix) + 1].index, policy_close)
  ELSE m

\* MainWindow::duplicate_tab
duplicate_tab(m, tab_ix_id) ==
  LET found == vec_position(positions_of_index(m.items, tab_ix_id)) IN
  IF IsSome(found)
  THEN insert_new_tab_with_profile(m, Some(m.items[Unwrap(found) + 1].shell_path))
  ELSE m

\* MainWindow::on_rename_dialog_event
on_rename_dialog_event(m, tab_ix_id, new_title) ==
  LET found == vec_position(positions_of_index(m.items, tab_ix_id)) IN
  IF IsSome(found)
  THEN [m EXCEPT !.items[Unwrap(found) + 1].custom_title = new_title]
  ELSE m

\* the texts the rename dialog's input can hold after the user edits it
InputValues == {"", " ", "  ", "w", " w "}

\* str::trim, on the texts of the model: only InputValues carry white space
trim(value) ==
  CASE value \in {"", " ", "  "} -> ""
    [] value = " w " -> "w"
    [] OTHER -> value

\* TabRenameEvent
TabRenameEvent(tab_ix_id, new_title) == [tab_index |-> tab_ix_id, new_title |-> new_title]

\* TabRenameDialog::new: the input starts with the current title
TabRenameDialog_new(tab_ix_id, current_title) ==
  [tab_index |-> tab_ix_id, value |-> current_title]

\* MainWindow::show_rename_dialog: the dialog it stores in rename_dialog
show_rename_dialog(m, tab_ix_id) ==
  LET found == vec_position(positions_of_index(m.items, tab_ix_id)) IN
  TabRenameDialog_new(tab_ix_id,
                      IF IsSome(found)
                      THEN display_title(m.items[Unwrap(found) + 1])
                      ELSE "")

\* TabRenameDialog::confirm with the empty test applied to the raw value
confirm_untrimmed(d) ==
  TabRenameEvent(d.tab_index, IF d.value = "" THEN None ELSE Some(d.value))

\* TabRenameDialog::confirm, the Rename button
confirm(d) ==
  TabRenameEvent(d.tab_index, IF trim(d.value) = "" THEN None ELSE Some(d.value))

\* the InputEvent::PressEnter subscription of TabRenameDialog::new
press_enter(d) ==
  TabRenameEvent(d.tab_index, IF trim(d.value) = "" THEN None ELSE Some(d.value))

\* TabRenameDialog::cancel, the Cancel button and the Escape key
cancel(d) == TabRenameEvent(d.tab_index, Some(d.value))

\* TabRenameDialog::clear_custom_title, the Reset to Auto button
clear_custom_title(d) == TabRenameEvent(d.tab_index, None)

\* MainWindow::split_pane with a terminal handle that is read from the
\* counter and not taken from it
split_pane_without_fetch_add(m, direction) ==
  IF IsSome(m.active_tab_ix) /\ Unwrap(m.active_tab_ix) < Len(m.items)
  THEN LET i == Unwrap(m.active_tab_ix) + 1
           r == split_active_pane(m.items[i].split_container, direction, m.tab_index) IN
       [m EXCEPT !.items[i].split_container = r.c]
  ELSE m

\* MainWindow::split_pane
split_pane(m, direction) ==
  IF IsSome(m.active_tab_ix) /\ Unwrap(m.active_tab_ix) < Len(m.items)
  THEN LET i == Unwrap(m.active_tab_ix) + 1
           index == m.tab_index
           r == split_active_pane(m.items[i].split_container, direction, index) IN
       [m EXCEPT !.tab_index = index + 1,
                 !.items[i].split_container = r.c]
  ELSE m

\* MainWindow::close_active_pane
mw_close_active_pane(m) ==
  IF IsSome(m.active_tab_ix) /\ Unwrap(m.active_tab_ix) < Len(m.items)
  THEN LET i == Unwrap(m.active_tab_ix) + 1 IN
       [m EXCEPT !.items[i].split_container = close_active_pane(m.items[i].split_container).c]
  ELSE m

\* SplitContainer::set_active_pane on the active tab's container (SelectPane)
select_pane(m, pane_id) ==
  IF IsSome(m.active_tab_ix) /\ Unwrap(m.active_tab_ix) < Len(m.items)
  THEN LET i == Unwrap(m.active_tab_ix) + 1 IN
       [m EXCEPT !.items[i].split_container = set_active_pane(m.items[i].split_container, pane_id)]
  ELSE m

\* the tab lookup of the CloseTerminal and UpdateTab arms
tab_position(m, terminal_index) ==
  vec_position({i \in 0..(Len(m.items) - 1) : has_terminal(m.items[i + 1], terminal_index)})

\* subscribe_terminal_view_event, TerminalEvent::CloseTerminal(terminal_index)
on_close_terminal(m, terminal_index, policy_close) ==
  LET found == tab_position(m, terminal_index) IN
  IF IsSome(found)
  THEN LET tab_pos == Unwrap(found)
           tab_ix_id == m.items[tab_pos + 1].index
           r == close_pane_by_terminal_index(m.items[tab_pos + 1].split_container,
                                             terminal_index)
           m1 == [m EXCEPT !.items[tab_pos + 1].split_container = r.c]
           should_close_tab == ~r.ret IN
       IF should_close_tab THEN remove_tab_by(m1, tab_ix_id, policy_close) ELSE m1
  ELSE m

\* on_update_tab writing the title whether or not a custom title is set
on_update_tab_over_custom(m, terminal_index, new_title) ==
  LET found == tab_position(m, terminal_index) IN
  IF IsSome(found)
  THEN [m EXCEPT !.items[Unwrap(found) + 1].title = new_title]
  ELSE m

\* subscribe_terminal_view_event, TerminalEvent::UpdateTab from the terminal
\* with index terminal_index whose title_text is new_title
on_update_tab(m, terminal_index, new_title) ==
  LET found == tab_position(m, terminal_index) IN
  IF IsSome(found)
  THEN LET i == Unwrap(found) + 1 IN
       IF IsSome(m.items[i].custom_title) THEN m
       ELSE [m EXCEPT !.items[i].title = new_title]
  ELSE m

\* a handler that indexed items out of bounds: the panic unwinds it
panic(m) == [m EXCEPT !.panicked = TRUE]

\* on_drop rebasing the active position only strictly between source and destination
on_drop_strictly_between(m, from_ix, to_ix) ==
  IF from_ix # to_ix
  THEN IF from_ix >= Len(m.items) THEN panic(m)
       ELSE LET item == m.items[from_ix + 1]
                removed == vec_remove(m.items, from_ix)
                insert_ix == IF from_ix < to_ix THEN to_ix ELSE to_ix IN
            IF insert_ix > Len(removed) THEN panic(m)
            ELSE LET m1 == [m EXCEPT !.items = vec_insert(removed, insert_ix, item)] IN
                 IF IsSome(m.active_tab_ix)
                 THEN LET active == Unwrap(m.active_tab_ix) IN
                      IF active = from_ix THEN [m1 EXCEPT !.active_tab_ix = Some(insert_ix)]
                      ELSE IF from_ix < active /\ active < to_ix
                      THEN [m1 EXCEPT !.active_tab_ix = Some(active - 1)]
                      ELSE IF to_ix < active /\ active < from_ix
                      THEN [m1 EXCEPT !.active_tab_ix = Some(active + 1)]
                      ELSE m1
                 ELSE m1
  ELSE m

\* on_drop of a tab: dragged.from_ix was captured at drag start, to_ix is the
\* position of the tab the payload is dropped on
on_drop(m, from_ix, to_ix) ==
  IF from_ix # to_ix
  THEN IF from_ix >= Len(m.items) THEN panic(m)
       ELSE LET item == m.items[from_ix + 1]
                removed == vec_remove(m.items, from_ix)
                insert_ix == IF from_ix < to_ix THEN to_ix ELSE to_ix IN
            IF insert_ix > Len(removed) THEN panic(m)
            ELSE LET m1 == [m EXCEPT !.items = vec_insert(removed, insert_ix, item)] IN
                 IF IsSome(m.active_tab_ix)
                 THEN LET active == Unwrap(m.active_tab_ix) IN
                      IF active = from_ix THEN [m1 EXCEPT !.active_tab_ix = Some(insert_ix)]
                      ELSE IF from_ix < active /\ active <= to_ix
                      THEN [m1 EXCEPT !.active_tab_ix = Some(active - 1)]
                      ELSE IF to_ix <= active /\ active < from_ix
                      THEN [m1 EXCEPT !.active_tab_ix = Some(active + 1)]
                      ELSE m1
                 ELSE m1
  ELSE m

\* context menu "Move Left"; tab_ix was captured when the menu was built
menu_move_left(m, tab_ix) ==
  IF tab_ix > 0
  THEN IF tab_ix >= Len(m.items) THEN panic(m)
       ELSE [m EXCEPT !.items = vec_swap(m.items, tab_ix, tab_ix - 1),
                      !.active_tab_ix = Some(tab_ix - 1)]
  ELSE m

\* context menu "Move Right"
menu_move_right(m, tab_ix) ==
  IF tab_ix + 1 < Len(m.items)
  THEN [m EXCEPT !.items = vec_swap(m.items, tab_ix, tab_ix + 1),
                 !.active_tab_ix = Some(tab_ix + 1)]
  ELSE m

\* context menu "Close Other Tabs"; keep_index is the captured tab id
menu_close_others(m, keep_index) ==
  LET retained(tab) == tab.index = keep_index IN
  [m EXCEPT !.items = SelectSeq(m.items, retained),
            !.active_tab_ix = Some(0)]

\* context menu "Close Tabs to Right"
menu_close_right(m, tab_ix) ==
  LET right_ix == tab_ix + 1 IN
  IF right_ix < Len(m.items)
  THEN [m EXCEPT !.items = vec_truncate(m.items, right_ix),
                 !.active_tab_ix = Some(tab_ix)]
  ELSE m

\* the values one rendered tab captures for its context menu
menu_capture(m, tab_ix) ==
  [tab_ix |-> tab_ix, tab_index |-> m.items[tab_ix + 1].index,
   total_tabs |-> Len(m.items),
   is_first |-> (tab_ix = 0), is_last |-> (tab_ix = Len(m.items) - 1)]

\* ---------------------------------------------------------------- EventBus
\* the event kinds of the model, keyed as std::mem::discriminant names them
Discriminants == {"NextTab", "PreviousTab", "CloseTab"}

\* a handler as the unit test subscribes it, a closure with an empty body; ord
\* tells the closures apart by the rank of their subscription and key is the
\* discriminant they were subscribed with
EventHandler(ord, key) == [ord |-> ord, key |-> key]

\* EventBus::new: no handlers
EventBus_new == [d \in {} |-> <<>>]

\* the handlers registered for a discriminant, none when the map has no entry
handlers_of(b, d) == IF d \in DOMAIN b THEN b[d] ELSE <<>>

\* EventBus::subscribe putting the new handler in front
subscribe_front(b, d, handler) ==
  [k \in DOMAIN b \cup {d} |-> IF k = d THEN <<handler>> \o handlers_of(b, d) ELSE b[k]]

\* EventBus::subscribe: entry(discriminant).or_default().push(handler)
subscribe(b, d, handler) ==
  [k \in DOMAIN b \cup {d} |-> IF k = d THEN Append(handlers_of(b, d), handler) ELSE b[k]]

\* EventBus::dispatch: the handlers it calls, in order, and the count it returns
dispatch(b, d) ==
  IF d \in DOMAIN b
  THEN [event |-> d, calls |-> b[d], ret |-> Len(b[d])]
  ELSE [event |-> d, calls |-> <<>>, ret |-> 0]

\* ------------------------------------------------------------ the machine
\* the ids handlers are called with: every id that can have been allocated
TabIds == 0..(limits.index - 1)       \* tab ids and terminal handles
PaneIds == 0..(limits.index - 1)

LeafIds(root) ==
  LET terminals == all_terminals(root) IN {terminals[k][1] : k \in 1..Len(terminals)}
LeafHandles(root) ==
  LET terminals == all_terminals(root) IN {terminals[k][2] : k \in 1..Len(terminals)}
LeafIdSeq(root) ==
  LET terminals == all_terminals(root) IN [k \in 1..Len(terminals) |-> terminals[k][1]]
TabIdsOf(v) == {v[i].index : i \in 1..Len(v)}
TabIdSeq(v) == [i \in 1..Len(v) |-> v[i].index]
HandlesOf(v) == UNION {LeafHandles(v[i].split_container.root) : i \in 1..Len(v)}
PanesOfTab(v, t) ==
  UNION {LeafIds(v[i].split_container.root) : i \in {j \in 1..Len(v) : v[j].index = t}}

Alive == ~window_removed /\ ~panicked

Limits(max_index, max_tabs, max_panes, recorded) ==
  [index |-> max_index, tabs |-> max_tabs, panes |-> max_panes, recorded |-> recorded]

\* the history entry of a handler: its name and the case it took, for the
\* handlers the specification records; one common entry for all the others
Record(op, case) ==
  IF op \in limits.recorded THEN [op |-> op, case |-> case]
  ELSE [op |-> "other", case |-> "other"]

\* the window m lies within the explored bounds
Bounded(m) ==
  /\ m.tab_index <= limits.index
  /\ Len(m.items) <= limits.tabs
  /\ \A i \in 1..Len(m.items) :
        count_panes(m.items[i].split_container.root) <= limits.panes

\* one handler runs to completion: the window becomes m.  last records the
\* handler and which of its cases it took.
Run(op, case, result) ==
  /\ Alive
  /\ LET m == result IN
     /\ Bounded(m)
     /\ items' = m.items
     /\ active_tab_ix' = m.active_tab_ix
     /\ tab_index' = m.tab_index
     /\ window_removed' = m.window_removed
     /\ panicked' = m.panicked
  /\ last' = Record(op, case)
  /\ ever_tabs' = ever_tabs \cup TabIdsOf(items')
  /\ ever_panes' = [t \in DOMAIN ever_panes |->
                      IF t \in TabIdsOf(items')
                      THEN ever_panes[t] \cup PanesOfTab(items', t) ELSE {}]
  /\ UNCHANGED <<close_on_last_tab, limits, bus, dispatched>>

\* a handler that leaves the tab switcher alone, before the next render
Apply(op, case, result) ==
  /\ Run(op, case, result)
  /\ UNCHANGED <<tab_switcher, rendered>>

\* the window after MainWindow::new
Start(l, policies) ==
  LET m == insert_new_tab([items |-> <<>>, active_tab_ix |-> None, tab_index |-> 0,
                           window_removed |-> FALSE, panicked |-> FALSE]) IN
  /\ items = m.items
  /\ active_tab_ix = m.active_tab_ix
  /\ tab_index = m.tab_index
  /\ close_on_last_tab \in policies
  /\ window_removed = FALSE
  /\ panicked = FALSE
  /\ menu = None
  /\ drag = None
  /\ rename_dialog = None
  /\ tab_switcher = [visible |-> FALSE, selection |-> 0]
  /\ rendered = Len(m.items)
  /\ bus = EventBus_new
  /\ dispatched = None
  /\ last = [op |-> "new", case |-> "new"]
  /\ ever_tabs = TabIdsOf(m.items)
  /\ ever_panes = [t \in 0..l.index |-> PanesOfTab(m.items, t)]
  /\ limits = l

\* the handlers whose runs each specification records in last
RecordedTabs == {"remove_tab_by", "CloseTerminal"}
RecordedPanes == {"split_pane", "close_active_pane", "set_active_pane", "CloseTerminal"}
RecordedIds == {"duplicate_tab", "remove_tab_by", "rename", "split_pane",
                "set_active_pane", "CloseTerminal", "UpdateTab"}

Init == Start(Limits(MaxIndex, MaxIndex, MaxIndex, RecordedTabs), BOOLEAN)

\* the active tab's container, when the active position resolves
HasActiveTab == IsSome(active_tab_ix) /\ Unwrap(active_tab_ix) < Len(items)
ActiveContainer == items[Unwrap(active_tab_ix) + 1].split_container

NewTab ==
  /\ Apply("insert_new_tab", "new", insert_new_tab(MW))
  /\ UNCHANGED <<menu, drag, rename_dialog>>

NewTabWithProfile ==
  \E name \in ProfileNames :
    /\ Apply("insert_new_tab_with_profile", "new",
             insert_new_tab_with_profile(MW, Some(name)))
    /\ UNCHANGED <<menu, drag, rename_dialog>>

DuplicateTab ==
  \E t \in TabIds :
    /\ Apply("duplicate_tab",
             IF t \in TabIdsOf(items) THEN "found" ELSE "stale",
             duplicate_tab(MW, t))
    /\ UNCHANGED <<menu, drag, rename_dialog>>

\* which case of remove_tab_by a call with tab id t takes
remove_case(t) ==
  LET found == removed_pos(MW, t) IN
  IF IsNone(found) THEN "stale"
  ELSE IF Len(items) = 1 THEN "last_tab"
  ELSE IF IsNone(active_tab_ix) THEN "no_active"
  ELSE IF Unwrap(active_tab_ix) = Unwrap(found) THEN "active"
  ELSE IF Unwrap(active_tab_ix) > Unwrap(found) THEN "before_active"
  ELSE "after_active"

\* the close button of a tab, "Close Tab" of the context menu, AppEvent::CloseTab
RemoveTab ==
  \E t \in TabIds :
    /\ Apply("remove_tab_by", remove_case(t), remove_tab_by(MW, t, close_on_last_tab))
    /\ UNCHANGED <<menu, drag, rename_dialog>>

\* the rename dialog of tab t emits TabRenameEvent
RenameTab ==
  \E t \in TabIds, new_title \in {None} \cup {Some(x) : x \in CustomTitles} :
    /\ Apply("rename",
             IF t \in TabIdsOf(items) THEN "found" ELSE "stale",
             on_rename_dialog_event(MW, t, new_title))
    /\ rename_dialog' = None
    /\ UNCHANGED <<menu, drag>>

\* a click on a rendered tab
SelectTab ==
  \E ix \in 0..(Len(items) - 1) :
    /\ IsNone(menu)
    /\ IsNone(drag)
    /\ Apply("set_active_tab", "click", set_active_tab(MW, ix))
    /\ UNCHANGED <<menu, drag, rename_dialog>>

SplitPane ==
  \E direction \in Directions :
    /\ Apply("split_pane",
             IF HasActiveTab THEN "split" ELSE "no_tab",
             split_pane(MW, direction))
    /\ UNCHANGED <<menu, drag, rename_dialog>>

CloseActivePane ==
  /\ Apply("close_active_pane",
           IF ~HasActiveTab THEN "no_tab"
           ELSE IF count_panes(ActiveContainer.root) <= 1 THEN "single"
           ELSE "closed",
           mw_close_active_pane(MW))
  /\ UNCHANGED <<menu, drag, rename_dialog>>

SelectPane ==
  \E pane_id \in PaneIds :
    /\ Apply("set_active_pane",
             IF ~HasActiveTab THEN "no_tab"
             ELSE IF pane_id \in LeafIds(ActiveContainer.root) THEN "found"
             ELSE "stale",
             select_pane(MW, pane_id))
    /\ UNCHANGED <<menu, drag, rename_dialog>>

\* which case of the CloseTerminal arm a notification for handle h takes
close_terminal_case(h) ==
  LET found == tab_position(MW, h) IN
  IF IsNone(found) THEN "stale"
  ELSE IF count_panes(items[Unwrap(found) + 1].split_container.root) <= 1 THEN "tab"
  ELSE "pane"

\* the process of the terminal with handle h exited
CloseTerminal ==
  \E h \in TabIds :
    /\ h < tab_index
    /\ Apply("CloseTerminal", close_terminal_case(h),
             on_close_terminal(MW, h, close_on_last_tab))
    /\ UNCHANGED <<menu, drag, rename_dialog>>

\* the terminal with handle h reports the title text
UpdateTab ==
  \E h \in TabIds, text \in TitleTexts :
    /\ h < tab_index
    /\ Apply("UpdateTab",
             IF IsNone(tab_position(MW, h)) THEN "stale"
             ELSE IF IsSome(items[Unwrap(tab_position(MW, h)) + 1].custom_title)
             THEN "custom" ELSE "auto",
             on_update_tab(MW, h, text))
    /\ UNCHANGED <<menu, drag, rename_dialog>>

\* the dialog's event reaches MainWindow::on_rename_dialog_event, which also
\* drops the dialog
Emit(op, event) ==
  /\ Apply(op,
           IF event.tab_index \notin TabIdsOf(items) THEN "stale"
           ELSE IF IsNone(event.new_title) THEN "cleared" ELSE "set",
           on_rename_dialog_event(MW, event.tab_index, event.new_title))
  /\ rename_dialog' = None
  /\ UNCHANGED <<menu, drag>>

\* the Enter key in the dialog's input
PressEnter == IsSome(rename_dialog) /\ Emit("press_enter", press_enter(Unwrap(rename_dialog)))

\* the Rename button
Confirm == IsSome(rename_dialog) /\ Emit("confirm", confirm(Unwrap(rename_dialog)))

\* the Cancel button and the Escape key
Cancel == IsSome(rename_dialog) /\ Emit("cancel", cancel(Unwrap(rename_dialog)))

\* the Reset to Auto button
ClearCustomTitle ==
  IsSome(rename_dialog)
  /\ Emit("clear_custom_title", clear_custom_title(Unwrap(rename_dialog)))

\* the handlers the bus holds, over all discriminants
Subscribed == UNION {{bus[d][i] : i \in 1..Len(bus[d])} : d \in DOMAIN bus}

\* a step of the event bus: the window is left alone, the handlers being empty
BusStep(op, case) ==
  /\ Alive
  /\ last' = Record(op, case)
  /\ UNCHANGED <<items, active_tab_ix, tab_index, close_on_last_tab, window_removed,
                 panicked, menu, drag, rename_dialog, tab_switcher, rendered,
                 ever_tabs, ever_panes, limits>>

\* bus.subscribe(discriminant, |_mw, _event, _window, _cx| {})
Subscribe ==
  \E d \in Discriminants :
    /\ Cardinality(Subscribed) < MaxHandlers
    /\ BusStep("subscribe", d)
    /\ bus' = subscribe(bus, d, EventHandler(Cardinality(Subscribed) + 1, d))
    /\ UNCHANGED dispatched

\* bus.dispatch(main_window, event, window, cx)
Dispatch ==
  \E d \in Discriminants :
    /\ BusStep("dispatch", d)
    /\ dispatched' = Some(dispatch(bus, d))
    /\ UNCHANGED bus

\* a step of the pointer that runs no handler of the window
Pointer(op) ==
  /\ Alive
  /\ last' = Record(op, "pointer")
  /\ UNCHANGED <<items, active_tab_ix, tab_index, close_on_last_tab, window_removed,
                 panicked, ever_tabs, ever_panes, limits, bus, dispatched,
                 tab_switcher, rendered>>

\* the window is drawn: the tab bar's closures capture the positions of the tabs
Render ==
  /\ Alive
  /\ rendered' = Len(items)
  /\ rendered' # rendered
  /\ last' = Record("render", "frame")
  /\ UNCHANGED <<items, active_tab_ix, tab_index, close_on_last_tab, window_removed,
                 panicked, menu, drag, rename_dialog, tab_switcher, bus, dispatched,
                 ever_tabs, ever_panes, limits>>

\* a click on a tab of the last render, at the position that render captured
ClickTab ==
  \E tab_ix \in 0..(rendered - 1) :
    /\ Apply("set_active_tab", IF tab_ix < Len(items) THEN "click" ELSE "stale",
             set_active_tab(MW, tab_ix))
    /\ UNCHANGED <<menu, drag, rename_dialog>>

\* Ctrl+Tab and Ctrl+Shift+Tab
ShowTabSwitcher ==
  \E forward \in BOOLEAN :
    LET r == show_tab_switcher(MW, tab_switcher, forward) IN
    /\ Run("show_tab_switcher",
           IF Len(items) <= 1 THEN "single"
           ELSE IF tab_switcher.visible THEN "cycle" ELSE "first",
           r.m)
    /\ tab_switcher' = r.sw
    /\ UNCHANGED <<menu, drag, rename_dialog, rendered>>

\* the release of Ctrl
HideTabSwitcher ==
  /\ Alive
  /\ tab_switcher.visible
  /\ tab_switcher' = hide_tab_switcher(tab_switcher)
  /\ last' = Record("hide_tab_switcher", "hidden")
  /\ UNCHANGED <<items, active_tab_ix, tab_index, close_on_last_tab, window_removed,
                 panicked, menu, drag, rename_dialog, rendered, bus, dispatched,
                 ever_tabs, ever_panes, limits>>

\* the default event bus dispatches AppEvent::NextTab
DispatchNextTab ==
  /\ Apply("NextTab", IF Len(items) = 0 THEN "empty" ELSE "step", next_tab(MW))
  /\ UNCHANGED <<menu, drag, rename_dialog>>

\* the default event bus dispatches AppEvent::PreviousTab
DispatchPreviousTab ==
  /\ Apply("PreviousTab", IF Len(items) = 0 THEN "empty" ELSE "step", previous_tab(MW))
  /\ UNCHANGED <<menu, drag, rename_dialog>>

\* the default event bus dispatches AppEvent::SwitchToTab { position }
DispatchSwitchToTab ==
  \E position \in 0..limits.index :
    /\ Apply("SwitchToTab", IF position < Len(items) THEN "switch" ELSE "beyond",
             switch_to_tab(MW, position))
    /\ UNCHANGED <<menu, drag, rename_dialog>>

\* the default event bus dispatches AppEvent::CloseActiveTab
DispatchCloseActiveTab ==
  /\ Apply("CloseActiveTab", IF HasActiveTab THEN "close" ELSE "none",
           close_active_tab(MW, close_on_last_tab))
  /\ UNCHANGED <<menu, drag, rename_dialog>>

\* the Rename Tab item of a tab's context menu, possibly of a tab closed since
ShowRenameDialog ==
  \E t \in ever_tabs :
    /\ Pointer("show_rename_dialog")
    /\ rename_dialog' = Some(show_rename_dialog(MW, t))
    /\ rename_dialog' # rename_dialog
    /\ UNCHANGED <<menu, drag>>

\* the user edits the text of the dialog's input
EditInput ==
  \E value \in InputValues :
    /\ IsSome(rename_dialog)
    /\ Pointer("input")
    /\ rename_dialog' = Some([Unwrap(rename_dialog) EXCEPT !.value = value])
    /\ rename_dialog' # rename_dialog
    /\ UNCHANGED <<menu, drag>>

\* a right click on a rendered tab builds its context menu
OpenContextMenu ==
  \E tab_ix \in 0..(Len(items) - 1) :
    /\ IsNone(drag)
    /\ menu' = Some(menu_capture(MW, tab_ix))
    /\ menu' # menu
    /\ Pointer("context_menu")
    /\ UNCHANGED <<drag, rename_dialog>>

\* the menu is closed without choosing an item
DismissMenu ==
  /\ IsSome(menu)
  /\ menu' = None
  /\ Pointer("dismiss_menu")
  /\ UNCHANGED <<drag, rename_dialog>>

\* the tab the menu was built for is still at the captured position
menu_case ==
  LET c == Unwrap(menu) IN
  IF c.tab_ix < Len(items) /\ items[c.tab_ix + 1].index = c.tab_index /\ c.total_tabs = Len(items)
  THEN "fresh" ELSE "stale"

MenuMoveLeft ==
  /\ IsSome(menu)
  /\ ~Unwrap(menu).is_first
  /\ Apply("menu_move_left", menu_case,
           menu_move_left(MW, Unwrap(menu).tab_ix))
  /\ menu' = None
  /\ UNCHANGED <<drag, rename_dialog>>

MenuMoveRight ==
  /\ IsSome(menu)
  /\ ~Unwrap(menu).is_last
  /\ Apply("menu_move_right", menu_case,
           menu_move_right(MW, Unwrap(menu).tab_ix))
  /\ menu' = None
  /\ UNCHANGED <<drag, rename_dialog>>

MenuCloseOthers ==
  /\ IsSome(menu)
  /\ ~(Unwrap(menu).total_tabs <= 1)
  /\ Apply("menu_close_others", menu_case,
           menu_close_others(MW, Unwrap(menu).tab_index))
  /\ menu' = None
  /\ UNCHANGED <<drag, rename_dialog>>

MenuCloseRight ==
  /\ IsSome(menu)
  /\ ~Unwrap(menu).is_last
  /\ Apply("menu_close_right", menu_case,
           menu_close_right(MW, Unwrap(menu).tab_ix))
  /\ menu' = None
  /\ UNCHANGED <<drag, rename_dialog>>

\* a drag of a rendered tab starts: the payload captures its position
StartDrag ==
  \E tab_ix \in 0..(Len(items) - 1) :
    /\ IsNone(menu)
    /\ IsNone(drag)
    /\ drag' = Some([from_ix |-> tab_ix])
    /\ Pointer("on_drag")
    /\ UNCHANGED <<menu, rename_dialog>>

\* the payload is dropped on the rendered tab at position to_ix
Drop ==
  \E to_ix \in 0..(Len(items) - 1) :
    /\ IsSome(drag)
    /\ Apply("on_drop",
             IF Unwrap(drag).from_ix = to_ix THEN "same" ELSE "move",
             on_drop(MW, Unwrap(drag).from_ix, to_ix))
    /\ drag' = None
    /\ UNCHANGED <<menu, rename_dialog>>

\* the payload is dropped outside the tab bar
CancelDrag ==
  /\ IsSome(drag)
  /\ drag' = None
  /\ Pointer("cancel_drag")
  /\ UNCHANGED <<menu, rename_dialog>>

\* the tab list: every handler that changes the tabs or their order
Next ==
  \/ NewTab
  \/ RemoveTab
  \/ SelectTab
  \/ SplitPane
  \/ CloseActivePane
  \/ CloseTerminal
  \/ OpenContextMenu
  \/ DismissMenu
  \/ MenuMoveLeft
  \/ MenuMoveRight
  \/ MenuCloseOthers
  \/ MenuCloseRight
  \/ StartDrag
  \/ Drop
  \/ CancelDrag

Spec == Init /\ [][Next]_vars

\* the pane tree of one tab: every handler that changes the tree or its active pane
NextPanes ==
  \/ SplitPane
  \/ CloseActivePane
  \/ SelectPane
  \/ CloseTerminal

InitPanes == Start(Limits(MaxPaneIndex, 1, MaxPaneIndex, RecordedPanes), BOOLEAN)

SpecPanes == InitPanes /\ [][NextPanes]_vars

\* the id-keyed handlers: tab ids, terminal handles and pane ids, stale or not
NextIds ==
  \/ DuplicateTab
  \/ RemoveTab
  \/ RenameTab
  \/ SplitPane
  \/ SelectPane
  \/ CloseTerminal
  \/ UpdateTab

InitIds == Start(Limits(MaxIdsIndex, MaxIdsIndex, MaxIdsIndex, RecordedIds), {FALSE})

SpecIds == InitIds /\ [][NextIds]_vars

\* the tab moves: drag and drop and the Move items of the context menu, among
\* single-leaf tabs that are opened, selected and closed
RecordedMoves == {"on_drop", "menu_move_left", "menu_move_right"}

NextMoves ==
  \/ NewTab
  \/ RemoveTab
  \/ SelectTab
  \/ OpenContextMenu
  \/ DismissMenu
  \/ MenuMoveLeft
  \/ MenuMoveRight
  \/ StartDrag
  \/ Drop
  \/ CancelDrag

InitMoves == Start(Limits(MaxMovesIndex, MaxMovesIndex, 1, RecordedMoves), {FALSE})

SpecMoves == InitMoves /\ [][NextMoves]_vars

\* the profiles: tabs opened with the default shell or with a profile of the
\* dropdown, duplicated, split and closed
RecordedProfiles == {"duplicate_tab", "insert_new_tab", "insert_new_tab_with_profile"}

NextProfiles ==
  \/ NewTab
  \/ NewTabWithProfile
  \/ DuplicateTab
  \/ SplitPane
  \/ SelectTab
  \/ RemoveTab

InitProfiles ==
  Start(Limits(MaxProfilesIndex, MaxProfilesIndex, MaxProfilesIndex, RecordedProfiles),
        {FALSE})

SpecProfiles == InitProfiles /\ [][NextProfiles]_vars

\* the tab selection: clicks on the tabs of the last render, the tab switcher
\* and the tab events of the default event bus, among tabs that are opened
\* and whose processes exit
RecordedSelect == {"set_active_tab", "show_tab_switcher", "NextTab", "PreviousTab",
                   "SwitchToTab", "CloseActiveTab"}

NextSelect ==
  \/ NewTab
  \/ CloseTerminal
  \/ Render
  \/ ClickTab
  \/ ShowTabSwitcher
  \/ HideTabSwitcher
  \/ DispatchNextTab
  \/ DispatchPreviousTab
  \/ DispatchSwitchToTab
  \/ DispatchCloseActiveTab

InitSelect == Start(Limits(MaxSelectIndex, MaxSelectIndex, 1, RecordedSelect), BOOLEAN)

SpecSelect == InitSelect /\ [][NextSelect]_vars

\* the event bus: handlers are subscribed and events dispatched
RecordedBus == {"subscribe", "dispatch"}

NextBus ==
  \/ Subscribe
  \/ Dispatch

InitBus == Start(Limits(1, 1, 1, RecordedBus), {FALSE})

SpecBus == InitBus /\ [][NextBus]_vars

\* the titles: the rename dialog and the title notifications of the terminals,
\* for tabs that are split and whose processes exit
RecordedTitles == {"press_enter", "confirm", "cancel", "clear_custom_title", "UpdateTab"}

NextTitles ==
  \/ ShowRenameDialog
  \/ EditInput
  \/ PressEnter
  \/ Confirm
  \/ Cancel
  \/ ClearCustomTitle
  \/ UpdateTab
  \/ SplitPane
  \/ CloseTerminal

InitTitles ==
  Start(Limits(MaxTitlesIndex, MaxTitlesIndex, MaxTitlesIndex, RecordedTitles), {FALSE})

SpecTitles == InitTitles /\ [][NextTitles]_vars

\* ---------------------------------------------------------------------------
\* Properties of the pane tree (checked under SpecPanes)

Containers == {items[i].split_container : i \in 1..Len(items)}
ContainerOfTab(v, t) ==
  v[CHOOSE i \in 1..Len(v) : v[i].index = t].split_container

\* the root a container holds after close_pane(pane_id) and the root replacement
RootAfterClosing(root, pane_id) == root_after_close(root, close_pane(root, pane_id))

\* C1: in every tree with at least two leaves, closing pane id X (close_pane
\* followed by the root replacement) lowers the leaf count by exactly one when X
\* is a leaf of the tree and leaves it unchanged when X is not, whatever the
\* depth of X.
C1_CloseRemovesExactlyOneLeaf ==
  \A c \in Containers :
    count_panes(c.root) >= 2 =>
      \A X \in PaneIds :
        count_panes(RootAfterClosing(c.root, X)) =
          IF X \in LeafIds(c.root) THEN count_panes(c.root) - 1 ELSE count_panes(c.root)

\* C2: the active pane id of every container is set and is the id of a leaf of
\* the container's tree.
C2_ActivePaneIsLeaf ==
  \A c \in Containers :
    /\ IsSome(c.active_pane_id)
    /\ Unwrap(c.active_pane_id) \in LeafIds(c.root)

\* a state reached by closing the active pane of a tree that still has several leaves
C2_Witness ==
  /\ last.op = "close_active_pane" /\ last.case = "closed"
  /\ \E c \in Containers : count_panes(c.root) >= 2

\* C3: every tree has at least one leaf, and on a tree with exactly one leaf
\* close-active and close-by-handle return false and leave the root, the active
\* id and the next id as they were.
C3_LastPaneIsKept ==
  \A c \in Containers :
    /\ count_panes(c.root) >= 1
    /\ count_panes(c.root) = 1 =>
         /\ close_active_pane(c) = [c |-> c, ret |-> FALSE]
         /\ \A h \in TabIds :
              close_pane_by_terminal_index(c, h) = [c |-> c, ret |-> FALSE]

\* a state reached by asking a one-leaf tree to close its active pane
C3_Witness ==
  /\ last.op = "close_active_pane" /\ last.case = "single"
  /\ \E c \in Containers : count_panes(c.root) = 1

\* C4: splitting any leaf L in either direction and then closing the new sibling
\* gives back the tree that was there before the split.
C4_SplitThenCloseRestores ==
  \A c \in Containers :
    \A L \in LeafIds(c.root) : \A direction \in Directions :
      LET N == c.next_pane_id
          r == split(c.root, L, direction, tab_index, N) IN
      r.ok /\ RootAfterClosing(r.self, N) = c.root

\* C5: within a tab the pane ids of the leaves are pairwise distinct and below
\* next_pane_id, next_pane_id never decreases, and a pane id that appears in the
\* tab was never present in it before.
C5_PaneIdsFreshStep ==
  \A t \in TabIdsOf(items') :
    LET after == ContainerOfTab(items', t) IN
    /\ Cardinality(LeafIds(after.root)) = count_panes(after.root)
    /\ \A id \in LeafIds(after.root) : id < after.next_pane_id
    /\ t \in TabIdsOf(items) =>
         LET before == ContainerOfTab(items, t) IN
         /\ after.next_pane_id >= before.next_pane_id
         /\ (LeafIds(after.root) \ LeafIds(before.root)) \cap ever_panes[t] = {}

C5_PaneIdsFresh == [][C5_PaneIdsFreshStep]_vars

\* a split performed in a tab one of whose earlier panes has been closed
C5_Witness ==
  /\ last.op = "split_pane" /\ last.case = "split"
  /\ \E t \in TabIdsOf(items) : ever_panes[t] \ PanesOfTab(items, t) # {}

\* C9: a process-exit notification for a handle of a tab with two or more leaves
\* closes that pane only and keeps the tabs and their order; for the only leaf of
\* a tab it removes the tab exactly as remove-tab does.
C9_ProcessExitStep ==
  last'.op = "CloseTerminal" =>
    /\ last'.case = "pane" =>
         /\ TabIdSeq(items') = TabIdSeq(items)
         /\ \E h \in HandlesOf(items) :
              \A i \in 1..Len(items) :
                LET before == items[i].split_container.root
                    after == items'[i].split_container.root IN
                IF h \in LeafHandles(before)
                THEN /\ LeafHandles(after) = LeafHandles(before) \ {h}
                     /\ count_panes(after) = count_panes(before) - 1
                ELSE after = before
    /\ last'.case = "tab" =>
         \E h \in HandlesOf(items) :
           LET T == items[Unwrap(tab_position(MW, h)) + 1]
               m == remove_tab_by(MW, T.index, close_on_last_tab) IN
           /\ count_panes(T.split_container.root) = 1
           /\ items' = m.items
           /\ active_tab_ix' = m.active_tab_ix

C9_ProcessExit == [][C9_ProcessExitStep]_vars

\* ---------------------------------------------------------------------------
\* Properties of the tab list (checked under Spec)

\* the step is remove_tab_by taking one of the given cases
RemovedIn(cases) == last'.op = "remove_tab_by" /\ last'.case \in cases

\* C6: when remove-tab removes the tab at position P and a tab remains, the
\* active position becomes min(P, new length - 1) if it was P, drops by one if P
\* was before it and stays if P was after it; removing a tab other than the
\* active one keeps the same tab id active.
C6_RemoveTabStep ==
  RemovedIn({"active", "before_active", "after_active"}) =>
    \E P \in 0..(Len(items) - 1) :
      LET A == Unwrap(active_tab_ix) IN
      /\ items' = vec_remove(items, P)
      /\ Len(items') >= 1
      /\ IsSome(active_tab_ix')
      /\ A = P => Unwrap(active_tab_ix') = Min(P, Len(items') - 1)
      /\ P < A => Unwrap(active_tab_ix') = A - 1
      /\ P > A => Unwrap(active_tab_ix') = A
      /\ (A # P /\ A < Len(items)) =>
           items'[Unwrap(active_tab_ix') + 1].index = items[A + 1].index

C6_RemoveTab == [][C6_RemoveTabStep]_vars

\* a state reached by removing a tab that stood before the active one
C6_Witness ==
  /\ last.op = "remove_tab_by" /\ last.case = "before_active"
  /\ Len(items) >= 1

\* C7: with close_on_last_tab = false the tab list is never empty.
C7_TabListNonEmpty == ~close_on_last_tab => Len(items) >= 1

\* the step removes the only tab through remove_tab_by, directly or on process exit
RemovesOnlyTab ==
  /\ Len(items) = 1
  /\ \/ RemovedIn({"last_tab"})
     \/ last'.op = "CloseTerminal" /\ last'.case = "tab"

\* C8: when remove-tab removes the only tab, policy false inserts exactly one
\* fresh single-leaf tab whose id was never used and makes position 0 active;
\* policy true inserts no tab and asks the window to close.
C8_OnlyTabStep ==
  RemovesOnlyTab =>
    IF close_on_last_tab
    THEN /\ items' = <<>>
         /\ tab_index' = tab_index
         /\ window_removed'
    ELSE /\ Len(items') = 1
         /\ items'[1].index \notin ever_tabs
         /\ items'[1].index = tab_index
         /\ items'[1].split_container = SplitContainer_new(tab_index)
         /\ active_tab_ix' = Some(0)
         /\ ~window_removed'

C8_OnlyTab == [][C8_OnlyTabStep]_vars

\* a state reached by removing the only tab under policy false
C8_Witness ==
  /\ last.op = "remove_tab_by" /\ last.case = "last_tab"
  /\ ~close_on_last_tab
  /\ Len(items) = 1 /\ items[1].index > 0

\* ---------------------------------------------------------------------------
\* Properties of the id-keyed operations (checked under SpecIds)

StaleTabIds == TabIds \ TabIdsOf(items)
StaleHandles == TabIds \ HandlesOf(items)

\* every id-keyed handler returns the window unchanged for every stale id
StaleIdsAreIgnored ==
  /\ \A t \in StaleTabIds :
       /\ remove_tab_by(MW, t, close_on_last_tab) = MW
       /\ duplicate_tab(MW, t) = MW
       /\ \A new_title \in {None} \cup {Some(x) : x \in CustomTitles} :
            on_rename_dialog_event(MW, t, new_title) = MW
  /\ \A h \in StaleHandles :
       /\ on_close_terminal(MW, h, close_on_last_tab) = MW
       /\ \A text \in TitleTexts : on_update_tab(MW, h, text) = MW
  /\ \A c \in Containers : \A pane_id \in PaneIds \ LeafIds(c.root) :
       /\ set_active_pane(c, pane_id) = c
       /\ close_pane(c.root, pane_id) = ClosePaneResult(c.root, None, FALSE)
       /\ RootAfterClosing(c.root, pane_id) = c.root

\* C10: remove-tab, duplicate-tab and rename with a tab id not in the list,
\* process-exited and title-changed for a handle in no tab, and select-pane and
\* close with a pane id not in the tree, leave the tab list, the pane trees, the
\* active pointers, the titles and the id allocators unchanged.
C10_StaleIdStep ==
  /\ StaleIdsAreIgnored
  /\ last'.case = "stale" => UNCHANGED <<items, active_tab_ix, tab_index, window_removed>>

C10_StaleId == [][C10_StaleIdStep]_vars

\* a state reached by a process-exit notification for a handle that is in no tab
C10_Witness ==
  /\ last.op = "CloseTerminal" /\ last.case = "stale"
  /\ StaleHandles # {}

\* ---------------------------------------------------------------------------
\* Properties of tab moves

\* C11: no drop of a dragged tab and no Move Left / Move Right indexes the tab
\* list out of bounds, also when tabs were removed after the source position was
\* captured.
C11_StaleMoveNeverPanics == ~panicked

\* the list after the tab at position from is taken out and put back at position to
Moved(v, from, to) == vec_insert(vec_remove(v, from), to, v[from + 1])

\* the position in v of the tab with the id
PositionOf(v, id) == CHOOSE i \in 0..(Len(v) - 1) : v[i + 1].index = id

\* the step is a drop that moved the dragged tab
DropMoves == last'.op = "on_drop" /\ last'.case = "move" /\ ~panicked'

\* the step is a Move Left / Move Right that swapped two tabs
MenuMoves == last'.op \in {"menu_move_left", "menu_move_right"} /\ items' # items

\* the active position rebased only when it lies strictly between source and destination
RebasedStrictlyBetween(a, from, to) ==
  IF a = from THEN to
  ELSE IF from < a /\ a < to THEN a - 1
  ELSE IF to < a /\ a < from THEN a + 1
  ELSE a

\* the active position rebased when it lies between source and destination,
\* the destination included
RebasedUpToDestination(a, from, to) ==
  IF a = from THEN to
  ELSE IF from < a /\ a <= to THEN a - 1
  ELSE IF to <= a /\ a < from THEN a + 1
  ELSE a

\* C12 (as stated): a move from position from to position to puts the tab at to
\* and shifts the active position only when it lies strictly between from and to.
C12_MoveStrictlyBetweenStep ==
  /\ DropMoves =>
       LET from == Unwrap(drag).from_ix
           to == PositionOf(items', items[from + 1].index) IN
       /\ items' = Moved(items, from, to)
       /\ active_tab_ix' = Some(RebasedStrictlyBetween(Unwrap(active_tab_ix), from, to))
  /\ MenuMoves =>
       LET from == Unwrap(menu).tab_ix
           to == PositionOf(items', items[from + 1].index) IN
       /\ items' = Moved(items, from, to)
       /\ active_tab_ix' = Some(RebasedStrictlyBetween(Unwrap(active_tab_ix), from, to))

C12_MoveStep ==
  /\ DropMoves =>
       LET from == Unwrap(drag).from_ix
           to == PositionOf(items', items[from + 1].index)
           a == Unwrap(active_tab_ix) IN
       /\ from # to
       /\ items' = Moved(items, from, to)
       /\ active_tab_ix' = Some(RebasedUpToDestination(a, from, to))
       /\ items'[Unwrap(active_tab_ix') + 1].index = items[a + 1].index
  /\ MenuMoves =>
       LET from == Unwrap(menu).tab_ix
           to == IF last'.op = "menu_move_left" THEN from - 1 ELSE from + 1 IN
       /\ items' = Moved(items, from, to)
       /\ active_tab_ix' = Some(to)

Blank(value) == value \in {"", " ", "  "}

\* the step submits the dialog, by the Enter key or the Rename button, for a
\* tab that is in the list
Submits == last'.op \in {"press_enter", "confirm"} /\ last'.case # "stale"

\* C13: submitting a rename with an empty or all-whitespace text leaves the
\* window as Reset to Auto would: the tab's custom_title is none and its
\* displayed title is its auto title; any other text becomes the custom_title,
\* as typed
C13_SubmitStep ==
  Submits =>
    LET d == Unwrap(rename_dialog)
        p == PositionOf(items, d.tab_index) + 1
        reset == on_rename_dialog_event(MW, d.tab_index, clear_custom_title(d).new_title)
    IN  /\ IsNone(rename_dialog')
        /\ IF Blank(d.value)
           THEN /\ items' = reset.items
                /\ active_tab_ix' = reset.active_tab_ix
                /\ tab_index' = reset.tab_index
                /\ IsNone(items'[p].custom_title)
                /\ display_title(items'[p]) = items[p].title
           ELSE /\ items' = [items EXCEPT ![p].custom_title = Some(d.value)]
                /\ display_title(items'[p]) = d.value

C13_Submit == [][C13_SubmitStep]_vars

\* a blank text was submitted with the Enter key for the only tab, whose auto
\* title a terminal had set, and the tab shows that auto title
C13_Witness ==
  /\ last.op = "press_enter"
  /\ last.case = "cleared"
  /\ Len(items) = 1
  /\ \E i \in 1..Len(items) : IsNone(items[i].custom_title) /\ items[i].title = "vim"

\* C14: a title notification from a pane of a tab whose custom title is set
\* changes nothing, so the stored auto title and the displayed title stay; a
\* notification from a pane of a tab without custom title, cleared or never
\* set, stores the text as the tab's title, which is then displayed
C14_UpdateTabStep ==
  /\ last'.op = "UpdateTab" /\ last'.case = "custom" =>
        /\ items' = items
        /\ \A i \in 1..Len(items) : display_title(items'[i]) = display_title(items[i])
  /\ last'.op = "UpdateTab" /\ last'.case = "auto" =>
        \E i \in 1..Len(items), text \in TitleTexts :
          /\ IsNone(items[i].custom_title)
          /\ items' = [items EXCEPT ![i].title = text]
          /\ display_title(items'[i]) = text
  /\ \A h \in HandlesOf(items), text \in TitleTexts :
        LET i == Unwrap(tab_position(MW, h)) + 1
            after == on_update_tab(MW, h, text).items
        IN  IF IsSome(items[i].custom_title)
            THEN after = items
            ELSE after[i].title = text /\ display_title(after[i]) = text

C14_UpdateTab == [][C14_UpdateTabStep]_vars

\* a notification from a pane of a split tab was ignored: the tab has a custom
\* title and still its first auto title
C14_Witness ==
  /\ last.op = "UpdateTab"
  /\ last.case = "custom"
  /\ Len(items) = 1
  /\ count_panes(items[1].split_container.root) = 2
  /\ IsSome(items[1].custom_title)
  /\ items[1].title \notin TitleTexts

\* ---------------------------------------------------------------------------
\* More properties of the pane tree
\* ---------------------------------------------------------------------------

\* Scenario A from the single-leaf container c, the two new terminals having
\* the handles t1 and t2
ScenarioA(c, t1, t2) ==
  LET L0 == c.root
      L1 == Terminal(c.next_pane_id, t1)
      L2 == Terminal(c.next_pane_id + 1, t2)
      s1 == split_active_pane(c, "Vertical", t1).c
      s2 == split_active_pane(s1, "Horizontal", t2).c
      s3 == close_pane_by_terminal_index(s2, t1).c
      s4 == close_active_pane(s3).c
  IN  /\ s1.root = Split("Vertical", L0, L1, DefaultRatio)
      /\ s1.active_pane_id = Some(L1.id)
      /\ s2.root = Split("Vertical", L0, Split("Horizontal", L1, L2, DefaultRatio),
                         DefaultRatio)
      /\ s2.active_pane_id = Some(L2.id)
      /\ s3.root = Split("Vertical", L0, L2, DefaultRatio)
      /\ s3.active_pane_id = Some(L2.id)
      /\ s4.root = L0
      /\ s4.active_pane_id = Some(L0.id)

\* C15: Scenario A holds step by step from every single-leaf container: the
\* vertical split, the horizontal split of the new leaf, the close of the
\* non-active L1 by its handle, and the close of the active L2, which leaves
\* the single leaf L0, active
C15_ScenarioA ==
  \A c \in Containers :
    c.root.kind = "Terminal" => ScenarioA(c, tab_index, tab_index + 1)

\* the window has walked the scenario: two splits, then two closes of which
\* the last closed the active pane, and the first leaf is alone again
C15_Witness ==
  /\ last.op = "close_active_pane"
  /\ last.case = "closed"
  /\ \E c \in Containers :
        /\ c.root.kind = "Terminal"
        /\ c.root.id = 0
        /\ c.next_pane_id = 3
        /\ c.active_pane_id = Some(0)

\* ---------------------------------------------------------------------------
\* Properties of the tab ids
\* ---------------------------------------------------------------------------

\* the items t and u are the same tab, before and after a step: they hold a
\* terminal in common (a terminal never changes its tab)
SameTab(t, u) ==
  LeafHandles(t.split_container.root) \cap LeafHandles(u.split_container.root) # {}

\* the tabs of the list have pairwise-distinct ids, below the allocator, and
\* a rename of any tab, with any title, changes no id
C16_TabIdsDistinct ==
  /\ Cardinality(TabIdsOf(items)) = Len(items)
  /\ \A id \in TabIdsOf(items) : id < tab_index
  /\ \A t \in TabIds, new_title \in {None} \cup {Some(x) : x \in CustomTitles} :
        TabIdSeq(on_rename_dialog_event(MW, t, new_title).items) = TabIdSeq(items)

\* across a step (move, removal, split, process exit) a tab keeps its id, the
\* allocator does not decrease and a tab that enters the list gets an id no
\* tab ever had
C16_TabIdsStep ==
  /\ tab_index' >= tab_index
  /\ \A i \in 1..Len(items), j \in 1..Len(items') :
        SameTab(items[i], items'[j]) => items'[j].index = items[i].index
  /\ (TabIdsOf(items') \ TabIdsOf(items)) \cap ever_tabs = {}

\* C16: tab ids are unique and stable: in every state the tabs of the list
\* have pairwise-distinct ids, and across every step a tab keeps the id it was
\* created with and an id that was ever used is not given to a later tab, the
\* allocator only increasing, also when pane splits consume it
C16_TabIds == []C16_TabIdsDistinct /\ [][C16_TabIdsStep]_vars

\* the tab with id 2 is in the list after the first tab was removed and after
\* a split consumed 1 from the allocator
C16_Witness ==
  /\ 2 \in TabIdsOf(items)
  /\ 0 \notin TabIdsOf(items)
  /\ ever_tabs = {0, 2}

\* ---------------------------------------------------------------------------
\* Properties of the profiles
\* ---------------------------------------------------------------------------

\* C17: duplicate_tab of a tab of the list appends one tab with a single leaf
\* whose shell program is the source tab's shell program, and leaves the tabs
\* that were in the list, the source among them, as they were
C17_DuplicateKeepsShell ==
  \A i \in 1..Len(items) :
    LET after == duplicate_tab(MW, items[i].index).items
        added == after[Len(after)]
    IN  /\ Len(after) = Len(items) + 1
        /\ SubSeq(after, 1, Len(items)) = items
        /\ added.split_container.root.kind = "Terminal"
        /\ added.shell_path = items[i].shell_path

\* ---------------------------------------------------------------------------
\* Properties of the event bus
\* ---------------------------------------------------------------------------

\* the ranks of the sequence of handlers increase strictly: each handler
\* occurs once and in the order of the subscriptions
InSubscriptionOrder(calls) ==
  \A i, j \in 1..Len(calls) : i < j => calls[i].ord < calls[j].ord

\* C18: a dispatch calls every handler subscribed with the event's
\* discriminant exactly once, in the order of the subscriptions, calls no
\* handler subscribed with another discriminant and returns the number of
\* handlers called, 0 when there is none; a subscribe adds exactly one
\* handler, at the end of the list of its discriminant
C18_BusStep ==
  /\ last'.op = "dispatch" =>
        LET d == Unwrap(dispatched')
            called == {d.calls[i] : i \in 1..Len(d.calls)} IN
        /\ d.event = last'.case
        /\ called = {h \in Subscribed : h.key = d.event}
        /\ InSubscriptionOrder(d.calls)
        /\ d.ret = Len(d.calls)
        /\ d.ret = Cardinality({h \in Subscribed : h.key = d.event})
        /\ bus' = bus
  /\ last'.op = "subscribe" =>
        LET added == CHOOSE h \in (Subscribed' \ Subscribed) : TRUE IN
        /\ Cardinality(Subscribed' \ Subscribed) = 1
        /\ Subscribed \subseteq Subscribed'
        /\ added.key = last'.case
        /\ \A k \in Discriminants :
              handlers_of(bus', k) =
                IF k = added.key THEN Append(handlers_of(bus, k), added)
                ELSE handlers_of(bus, k)

C18_Bus == [][C18_BusStep]_vars

\* a dispatch called two handlers of its discriminant and left out a handler
\* subscribed between them with another discriminant
C18_Witness ==
  /\ last.op = "dispatch"
  /\ IsSome(dispatched)
  /\ Unwrap(dispatched).ret = 2
  /\ Unwrap(dispatched).calls[1].ord = 1
  /\ Unwrap(dispatched).calls[2].ord = 3
  /\ Cardinality(Subscribed) = 3

\* ---------------------------------------------------------------------------
\* Properties of the close of a pane
\* ---------------------------------------------------------------------------

\* the tree in which the parent of the leaf X is replaced by X's sibling
\* subtree and nothing else is changed
RECURSIVE WithoutLeaf(_, _)
WithoutLeaf(node, X) ==
  IF node.kind = "Terminal" THEN node
  ELSE IF node.first.kind = "Terminal" /\ node.first.id = X THEN node.second
  ELSE IF node.second.kind = "Terminal" /\ node.second.id = X THEN node.first
  ELSE [node EXCEPT !.first = WithoutLeaf(node.first, X),
                    !.second = WithoutLeaf(node.second, X)]

\* C19: closing a leaf X of a tree with at least two leaves replaces X's
\* parent by X's sibling subtree and changes nothing else, whatever the depth
\* of X: the leaf ids in pre-order are those before without X, and two leaves
\* become the single remaining leaf
C19_CloseSplicesSibling ==
  \A c \in Containers :
    count_panes(c.root) >= 2 =>
      \A X \in LeafIds(c.root) :
        LET after == RootAfterClosing(c.root, X) IN
        /\ after = WithoutLeaf(c.root, X)
        /\ LeafIdSeq(after) = SelectSeq(LeafIdSeq(c.root), LAMBDA id : id # X)
        /\ count_panes(c.root) = 2 => after.kind = "Terminal"

\* C20: for every container with an active terminal, closing the pane of that
\* terminal's handle (the process of the active pane exits) gives the same
\* tree, active id and next id, and returns the same, as close_active_pane;
\* in a tab with at least two panes the two window handlers agree as well
C20_CloseByHandleOfActive ==
  /\ \A c \in Containers :
        IsSome(get_active_terminal(c)) =>
          LET by_handle == close_pane_by_terminal_index(c, Unwrap(get_active_terminal(c)))
              active == close_active_pane(c) IN
          /\ by_handle.c.root = active.c.root
          /\ by_handle.c.active_pane_id = active.c.active_pane_id
          /\ by_handle.c.next_pane_id = active.c.next_pane_id
          /\ by_handle.ret = active.ret
  /\ HasActiveTab /\ count_panes(ActiveContainer.root) >= 2
                  /\ IsSome(get_active_terminal(ActiveContainer)) =>
        on_close_terminal(MW, Unwrap(get_active_terminal(ActiveContainer)),
                          close_on_last_tab) = mw_close_active_pane(MW)

\* a process exit closed a pane of a tab that keeps three panes, the active
\* one not being the first: closing it either way has to repair the active id
C20_Witness ==
  /\ last.op = "CloseTerminal"
  /\ last.case = "pane"
  /\ \E c \in Containers :
        /\ count_panes(c.root) = 3
        /\ IsSome(get_active_terminal(c))
        /\ c.active_pane_id # first_terminal_id(c.root)

\* ---------------------------------------------------------------------------
\* Properties of the split of a pane
\* ---------------------------------------------------------------------------

\* the tree in which the leaf X is replaced by the subtree by and nothing
\* else is changed
RECURSIVE WithLeafReplaced(_, _, _)
WithLeafReplaced(node, X, by) ==
  IF node.kind = "Terminal" THEN (IF node.id = X THEN by ELSE node)
  ELSE [node EXCEPT !.first = WithLeafReplaced(node.first, X, by),
                    !.second = WithLeafReplaced(node.second, X, by)]

\* the leaf with id X of a tree that has it
LeafOf(root, X) == Terminal(X, Unwrap(find_terminal(root, X)))

\* C21: split(X, direction, new leaf) on a tree that has the leaf X replaces
\* exactly that leaf by the split node of the direction with the original leaf
\* first, its id and handle kept, the new leaf second and the ratio 0.5, and
\* returns true; when X is in no leaf it returns false and the tree is as it was
C21_SplitReplacesLeaf ==
  \A c \in Containers : \A X \in PaneIds, direction \in Directions :
    LET N == c.next_pane_id
        r == split(c.root, X, direction, tab_index, N) IN
    IF X \in LeafIds(c.root)
    THEN /\ r.ok
         /\ r.self = WithLeafReplaced(c.root, X,
                        [kind |-> "Split", direction |-> direction,
                         first |-> LeafOf(c.root, X),
                         second |-> [kind |-> "Terminal", id |-> N, terminal |-> tab_index],
                         ratio |-> 50])
    ELSE ~r.ok /\ r.self = c.root

\* a tree of three leaves of which one was closed before: it has leaves to
\* split below the root and pane ids that are in no leaf
C21_Witness ==
  /\ last.op = "split_pane"
  /\ \E c \in Containers :
        /\ count_panes(c.root) = 3
        /\ c.next_pane_id = 4

\* the reachable trees, each with every value the active id can be given: none,
\* a leaf of the tree, or an id of no leaf
ContainersWithAnyActive ==
  {[c EXCEPT !.active_pane_id = a] :
     c \in Containers, a \in {None} \cup {Some(X) : X \in PaneIds}}

\* C22: split_active_pane on a container whose active id is a leaf gives the
\* new leaf the previous next_pane_id as its id, makes it the active pane,
\* returns its id and increases next_pane_id by one; with no active id, or
\* one that is in no leaf, the container is unchanged and none is returned
C22_SplitActive ==
  \A c \in ContainersWithAnyActive : \A direction \in Directions :
    LET N == c.next_pane_id
        r == split_active_pane(c, direction, tab_index) IN
    IF IsSome(c.active_pane_id) /\ Unwrap(c.active_pane_id) \in LeafIds(c.root)
    THEN /\ r.ret = Some(N)
         /\ LeafIds(r.c.root) = LeafIds(c.root) \cup {N}
         /\ find_terminal(r.c.root, N) = Some(tab_index)
         /\ r.c.active_pane_id = Some(N)
         /\ r.c.next_pane_id = N + 1
    ELSE /\ r.ret = None
         /\ r.c = c

\* the window split the active pane of a tab one of whose panes was closed: the
\* new leaf is active and has the id before next_pane_id, and an id of the
\* range is in no leaf
C22_Witness ==
  /\ last.op = "split_pane"
  /\ last.case = "split"
  /\ \E c \in Containers :
        /\ c.active_pane_id = Some(c.next_pane_id - 1)
        /\ PaneIds \ LeafIds(c.root) # {}
        /\ count_panes(c.root) >= 2

\* ---------------------------------------------------------------------------
\* Properties of the active pane after a close
\* ---------------------------------------------------------------------------

\* the id of the first leaf of the tree in pre-order, left to right
RECURSIVE FirstLeaf(_)
FirstLeaf(node) == IF node.kind = "Terminal" THEN node.id ELSE FirstLeaf(node.first)

\* C23: after every close_active_pane that returns true, the active id is
\* the first leaf in pre-order of the resulting tree
C23_ActiveAfterCloseActive ==
  \A c \in Containers :
    LET r == close_active_pane(c) IN
    r.ret => r.c.active_pane_id = Some(FirstLeaf(r.c.root))

\* the window closed the active pane of a tab that keeps two panes or more,
\* and the first of them is active
C23_Witness ==
  /\ last.op = "close_active_pane"
  /\ last.case = "closed"
  /\ HasActiveTab
  /\ count_panes(ActiveContainer.root) >= 2
  /\ ActiveContainer.active_pane_id = Some(FirstLeaf(ActiveContainer.root))

\* C24: closing, by its handle, a pane that is not the active one leaves the
\* active id as it was whenever that id is still a leaf of the resulting
\* tree; otherwise the active id becomes the first leaf in pre-order
C24_CloseOfNonActive ==
  \A c \in Containers :
    \A h \in LeafHandles(c.root) \ {Unwrap(get_active_terminal(c))} :
      LET r == close_pane_by_terminal_index(c, h) IN
      /\ r.ret
      /\ IF Unwrap(c.active_pane_id) \in LeafIds(r.c.root)
         THEN r.c.active_pane_id = c.active_pane_id
         ELSE r.c.active_pane_id = Some(FirstLeaf(r.c.root))

\* the process of a non-active pane exited in a tab that keeps two panes: the
\* active pane is still the second one
C24_Witness ==
  /\ last.op = "CloseTerminal"
  /\ last.case = "pane"
  /\ \E c \in Containers :
        /\ count_panes(c.root) = 2
        /\ c.active_pane_id # Some(FirstLeaf(c.root))
        /\ IsSome(get_active_terminal(c))

\* ---------------------------------------------------------------------------
\* Properties of a new tab
\* ---------------------------------------------------------------------------

\* the step opens a tab, with the default shell or with a profile
OpensTab == last'.op \in {"insert_new_tab", "insert_new_tab_with_profile"}

\* C25: a new tab is appended at the end of the list, alone, with an id that
\* no tab ever had, a tree of the one leaf 0, active, next id 1, and no custom
\* title; it becomes the active tab, and the tabs that were in the list are
\* unchanged, in their order
C25_NewTabStep ==
  OpensTab =>
    LET added == items'[Len(items')]
        tree == added.split_container IN
    /\ Len(items') = Len(items) + 1
    /\ SubSeq(items', 1, Len(items)) = items
    /\ added.index \notin ever_tabs
    /\ added.index \notin HandlesOf(items)
    /\ tree.root.kind = "Terminal"
    /\ tree.root.id = 0
    /\ tree.active_pane_id = Some(0)
    /\ tree.next_pane_id = 1
    /\ IsNone(added.custom_title)
    /\ active_tab_ix' = Some(Len(items') - 1)

C25_NewTab == [][C25_NewTabStep]_vars

\* a tab was opened with a profile as the second of the list, after an
\* earlier tab had been closed
C25_Witness ==
  /\ last.op = "insert_new_tab_with_profile"
  /\ Len(items) = 2
  /\ Cardinality(ever_tabs) = 3

\* ---------------------------------------------------------------------------
\* Properties of the cancelled rename
\* ---------------------------------------------------------------------------

\* C26: cancelling the rename dialog, by the Cancel button or the Escape key,
\* changes nothing in the tabs whatever text the input holds: each custom
\* title is as before, so a tab with none still takes the title notifications
C26_CancelStep ==
  last'.op = "cancel" =>
    /\ items' = items
    /\ \A i \in 1..Len(items) : items'[i].custom_title = items[i].custom_title

C26_Cancel == [][C26_CancelStep]_vars

\* ---------------------------------------------------------------------------
\* Properties of the active tab
\* ---------------------------------------------------------------------------

\* the id of the tab at the active position a of the list v
ActiveTabId(v, a) == v[Unwrap(a) + 1].index

\* C27: every tab move, by drag and drop, Move Left or Move Right, keeps the
\* same tab active: the tab at the active position after the move has the id
\* of the tab at the active position before it
C27_MoveKeepsActiveStep ==
  last'.op \in {"on_drop", "menu_move_left", "menu_move_right"}
  /\ ~panicked' /\ HasActiveTab =>
    /\ IsSome(active_tab_ix')
    /\ Unwrap(active_tab_ix') < Len(items')
    /\ ActiveTabId(items', active_tab_ix') = ActiveTabId(items, active_tab_ix)

C27_MoveKeepsActive == [][C27_MoveKeepsActiveStep]_vars

\* C28: in every state with at least one tab the active position is set and
\* smaller than the number of tabs, whatever the window has run: new tab,
\* removals, Close Other Tabs, Close Tabs to Right, moves, tab clicks, and the
\* process exits that remove tabs between a render and the use of the
\* positions it captured
C28_ActivePositionInRange ==
  Len(items) >= 1 => IsSome(active_tab_ix) /\ Unwrap(active_tab_ix) < Len(items)

-----------------------------------------------------------------------------
\* Properties of the terminal handles

\* the (tab position, leaf position) pairs whose leaf carries the handle
PairsOfHandle(v, terminal_index) ==
  UNION {{<<i, k>> : k \in {j \in 1..Len(all_terminals(v[i].split_container.root)) :
                              all_terminals(v[i].split_container.root)[j][2] = terminal_index}} :
         i \in 1..Len(v)}

\* C29: in every reachable state no two leaves, of one tab or of two tabs,
\* carry the same terminal handle: every handle is carried by at most one
\* (tab, leaf) pair, the tab lookup of a notification matches at most one
\* tab, and every handle in use is below the counter that hands them out
C29_HandlesUnique ==
  /\ \A h \in 0..limits.index : Cardinality(PairsOfHandle(items, h)) <= 1
  /\ \A h \in 0..limits.index :
       Cardinality({i \in 1..Len(items) : has_terminal(items[i], h)}) <= 1
  /\ \A h \in HandlesOf(items) : h < tab_index

\* two tabs are open, one of them split into two leaves or more: three
\* handles or more are in use, in two tabs
C29_Witness ==
  /\ Alive
  /\ Len(items) = 2
  /\ \E i \in 1..2 : count_panes(items[i].split_container.root) >= 2
  /\ Cardinality(HandlesOf(items)) >= 3

-----------------------------------------------------------------------------
\* Properties of the tab events of the default event bus

\* the position before a of the n positions 0..(n - 1), modulo n
Previous(a, n) == (a + n - 1) % n

\* C30: the handlers of NextTab, PreviousTab and SwitchToTab keep the tabs and
\* leave the active position set and smaller than the number of tabs: NextTab
\* and PreviousTab step it by one modulo the number of tabs, SwitchToTab with
\* a position at or beyond the number of tabs leaves it as it was, and so do
\* all three when there is no tab; CloseActiveTab removes the tab at the
\* active position, the one whose id it passes on, and no other
C30_BusSelectionStep ==
  /\ last'.op \in {"NextTab", "PreviousTab", "SwitchToTab"} =>
       /\ items' = items
       /\ Len(items) = 0 \/ last'.case = "beyond" => active_tab_ix' = active_tab_ix
       /\ Len(items) >= 1 /\ last'.case # "beyond" =>
            IsSome(active_tab_ix') /\ Unwrap(active_tab_ix') < Len(items)
  /\ last'.op = "NextTab" /\ Len(items) >= 1 =>
       active_tab_ix' = Some((unwrap_or(active_tab_ix, 0) + 1) % Len(items))
  /\ last'.op = "PreviousTab" /\ Len(items) >= 1 =>
       active_tab_ix' = Some(Previous(unwrap_or(active_tab_ix, 0), Len(items)))
  /\ last'.op = "CloseActiveTab" /\ last'.case = "close" /\ Len(items) >= 2 =>
       /\ items' = vec_remove(items, Unwrap(active_tab_ix))
       /\ ActiveTabId(items, active_tab_ix) \notin TabIdsOf(items')
  /\ last'.op = "CloseActiveTab" /\ last'.case = "none" =>
       items' = items /\ active_tab_ix' = active_tab_ix

C30_BusSelection == [][C30_BusSelectionStep]_vars


====
